---- MODULE Spec2Model ----
(***************************************************************************)
(* Model of the forecast blender (scripts/blend_forecast.py) and of the    *)
(* forecast indexer (scripts/build_forecast_index.py).                     *)
(*                                                                         *)
(* Python values are represented as follows.                               *)
(*   None            <<>>                                                  *)
(*   a non-None v    <<v>>            (Some(v))                             *)
(*   a str           a sequence of one-character strings                   *)
(*   a dict          a function whose DOMAIN is the set of keys            *)
(*   a non-numeric   a pair <<"str", "...">> (only where a number is       *)
(*   JSON value      expected: probabilityOfPrecipitation, validTimeUtc)   *)
(***************************************************************************)
EXTENDS Integers, Sequences, FiniteSets, TLC

VARIABLES pc, nws_periods, pi, daily, twc, ti, days,
          nws_daily, twc_days, days_limit, bi, blended,
          LAT, LON, listing, outfile, points

vars == <<pc, nws_periods, pi, daily, twc, ti, days,
          nws_daily, twc_days, days_limit, bi, blended,
          LAT, LON, listing, outfile, points>>

collapseVars == <<nws_periods, pi, daily>>
parseVars == <<twc, ti, days>>
blendVars == <<nws_daily, twc_days, days_limit, bi, blended>>
indexVars == <<LAT, LON, listing, outfile, points>>

(***************************************************************************)
(* Bounds                                                                  *)
(***************************************************************************)
MaxPeriods == 3
MaxDays == 2
MaxBlendPeriods == 2
MaxBlendDays == 3
MaxLimit == 3
MaxFiles == 2

(***************************************************************************)
(* Python values                                                           *)
(***************************************************************************)
None == <<>>
Some(v) == <<v>>
Val(x) == x[1]
NonNumeric == <<"str", "n/a">>
IsNumber(x) == Len(x) = 1

Min(a, b) == IF a < b THEN a ELSE b
Max(a, b) == IF a < b THEN b ELSE a

\* s[:n]
Take(s, n) == SubSeq(s, 1, Min(Len(s), n))

\* truthiness of an Optional[str]
TruthyStr(x) == x # None /\ Val(x) # <<>>
\* truthiness of an Optional[bool]
TruthyBool(x) == x # None /\ Val(x)

\* dict[k] = v
Put(f, k, v) == [x \in DOMAIN f \cup {k} |-> IF x = k THEN v ELSE f[x]]
EmptyDict == [x \in {} |-> None]

Space == " "

RECURSIVE LStrip(_)
LStrip(s) == IF s # <<>> /\ Head(s) = Space THEN LStrip(Tail(s)) ELSE s

RECURSIVE RStrip(_)
RStrip(s) ==
    IF s # <<>> /\ s[Len(s)] = Space THEN RStrip(SubSeq(s, 1, Len(s) - 1)) ELSE s

\* str.strip()
Strip(s) == RStrip(LStrip(s))

Digits == <<"0", "1", "2", "3", "4", "5", "6", "7", "8", "9">>
IsDigit(c) == \E i \in 1..10 : Digits[i] = c
DigitVal(c) == (CHOOSE i \in 1..10 : Digits[i] = c) - 1
\* "%02d" % n
TwoDigits(n) == <<Digits[(n \div 10) + 1], Digits[(n % 10) + 1]>>

(***************************************************************************)
(* Government periods, as parse_nws_periods returns them                   *)
(***************************************************************************)
DateA == <<"1", "9", "7", "0", "-", "0", "1", "-", "0", "2">>
DateB == <<"1", "9", "7", "0", "-", "0", "1", "-", "0", "3">>
Morning == <<"T", "0", "6", ":", "0", "0", ":", "0", "0", "-", "0", "5", ":", "0", "0">>
Evening == <<"T", "1", "8", ":", "0", "0", ":", "0", "0", "-", "0", "5", ":", "0", "0">>

Sunny == <<"S", "u", "n">>
Clear == <<"C", "l", "r">>
Hot == <<"H", "o", "t">>
Blank == <<" ">>

Period(start, is_day, temp, detail, pop) ==
    [start |-> start, is_day |-> is_day,
     name |-> IF TruthyBool(is_day) THEN Some("Today") ELSE Some("Tonight"),
     temp |-> temp,
     icon |-> IF TruthyBool(is_day) THEN Some("day.png") ELSE Some("night.png"),
     detail |-> detail, pop |-> pop]

RegularPeriods ==
    { Period(Some(x[1] \o (IF isd THEN Morning ELSE Evening)), Some(isd),
             IF isd THEN Some(95) ELSE Some(75),
             detail, x[2]) :
        x \in {<<DateA, None>>, <<DateA, Some(40)>>, <<DateB, Some(40)>>},
        isd \in BOOLEAN,
        detail \in {Some(<<>>), Some(Sunny)} }

OddPeriods ==
    { Period(None, Some(TRUE), Some(95), Some(Sunny), Some(40)),
      Period(Some(<<>>), Some(FALSE), Some(75), Some(Clear), Some(40)),
      Period(Some(DateA \o Morning), Some(TRUE), None, None, NonNumeric),
      Period(Some(DateA \o Evening), Some(FALSE), Some(70), Some(Clear), Some(10)),
      Period(Some(DateA \o Morning), Some(TRUE), Some(99), Some(Blank), Some(10)),
      Period(Some(DateA \o Evening), None, Some(60), Some(Hot), Some(70)),
      Period(Some(DateA \o Evening), Some(FALSE), None, Some(Blank), Some(-5)) }

Periods == RegularPeriods \cup OddPeriods

RECURSIVE SeqsUpTo(_, _)
SeqsUpTo(S, n) ==
    IF n = 0 THEN {<<>>}
    ELSE LET shorter == SeqsUpTo(S, n - 1)
         IN shorter \cup {Append(s, x) : s \in {t \in shorter : Len(t) = n - 1}, x \in S}

(***************************************************************************)
(* collapse_nws_to_daily                                                   *)
(***************************************************************************)
day_key_from_iso(iso) == IF ~TruthyStr(iso) THEN None ELSE Some(Take(Val(iso), 10))

NewSummary ==
    [nws_day_name |-> None, nws_day_temp |-> None, nws_night_temp |-> None,
     nws_pop |-> 0, nws_icon_day |-> None, nws_icon_night |-> None,
     nws_narr_day |-> <<>>, nws_narr_night |-> <<>>]

\* ApplyDay storing the detailed forecast unconditionally
ApplyDayErasing(d, p) ==
    [d EXCEPT !.nws_day_name = p.name,
              !.nws_day_temp = p.temp,
              !.nws_icon_day = p.icon,
              !.nws_narr_day = IF p.detail # None THEN Val(p.detail) ELSE <<>>]

\* the daytime branch
ApplyDay(d, p) ==
    [d EXCEPT !.nws_day_name = p.name,
              !.nws_day_temp = p.temp,
              !.nws_icon_day = p.icon,
              !.nws_narr_day = IF TruthyStr(p.detail) THEN Val(p.detail) ELSE @]

\* ApplyNight that also writes the temperature into the day slot
ApplyNightClobber(d, p) ==
    [d EXCEPT !.nws_night_temp = p.temp,
              !.nws_day_temp = p.temp,
              !.nws_icon_night = p.icon,
              !.nws_narr_night = IF TruthyStr(p.detail) THEN Val(p.detail) ELSE @]

\* the nighttime branch
ApplyNight(d, p) ==
    [d EXCEPT !.nws_night_temp = p.temp,
              !.nws_icon_night = p.icon,
              !.nws_narr_night = IF TruthyStr(p.detail) THEN Val(p.detail) ELSE @]

\* UpdatePop keeping the last value instead of the maximum
UpdatePopLast(d, p) ==
    IF IsNumber(p.pop)
    THEN [d EXCEPT !.nws_pop = Val(p.pop)]
    ELSE d

\* the running maximum of the probability of precipitation
UpdatePop(d, p) ==
    IF IsNumber(p.pop)
    THEN [d EXCEPT !.nws_pop = Max(@, Val(p.pop))]
    ELSE d

\* one iteration of the loop over nws_periods
FoldPeriod(dl, p) ==
    LET day_key == day_key_from_iso(p.start)
    IN IF day_key = None THEN dl
       ELSE LET k == Val(day_key)
                d == IF k \in DOMAIN dl THEN dl[k] ELSE NewSummary
                slot == IF TruthyBool(p.is_day) THEN ApplyDay(d, p) ELSE ApplyNight(d, p)
            IN Put(dl, k, UpdatePop(slot, p))

RECURSIVE FoldFrom(_, _, _)
FoldFrom(dl, ps, i) == IF i > Len(ps) THEN dl ELSE FoldFrom(FoldPeriod(dl, ps[i]), ps, i + 1)

collapse_nws_to_daily(ps) == FoldFrom(EmptyDict, ps, 1)

CollapseStep ==
    /\ pc = "collapse"
    /\ pi <= Len(nws_periods)
    /\ daily' = FoldPeriod(daily, nws_periods[pi])
    /\ pi' = pi + 1
    /\ UNCHANGED <<pc, nws_periods, parseVars, blendVars, indexVars>>

CollapseReturn ==
    /\ pc = "collapse"
    /\ pi > Len(nws_periods)
    /\ pc' = "collapsed"
    /\ UNCHANGED <<collapseVars, parseVars, blendVars, indexVars>>

Idle(p) ==
    /\ (p # "collapse" => nws_periods = <<>> /\ pi = 1 /\ daily = EmptyDict)
    /\ (p # "parse" => twc = <<>> /\ ti = 1 /\ days = <<>>)
    /\ (p # "blend" => nws_daily = EmptyDict /\ twc_days = <<>> /\ days_limit = 7
                       /\ bi = 1 /\ blended = <<>>)
    /\ (p # "index" => LAT = <<>> /\ LON = <<>> /\ listing = None /\ outfile = None
                       /\ points = {})

InitCollapse ==
    /\ pc = "collapse"
    /\ nws_periods \in SeqsUpTo(Periods, MaxPeriods)
    /\ pi = 1
    /\ daily = EmptyDict
    /\ Idle("collapse")

NextCollapse == CollapseStep \/ CollapseReturn

SpecCollapse == InitCollapse /\ [][NextCollapse]_vars

(***************************************************************************)
(* parse_twc_daily                                                         *)
(*                                                                         *)
(* The commercial payload is a record of its arrays; None is a key that is *)
(* absent.  validTimeUtc holds epoch seconds; the timestamps of the model  *)
(* lie in January 1970, where the calendar is the day count.               *)
(***************************************************************************)
\* twc.get(key, [])
GetArray(t, key) == IF t[key] = None THEN <<>> ELSE Val(t[key])

\* dt.datetime.utcfromtimestamp(ts) under try/except: None when it raises
utcfromtimestamp(ts) == IF IsNumber(ts) THEN Some(Val(ts)) ELSE None

\* datetime.isoformat() of a whole number of seconds since the epoch
isoformat(n) ==
    LET day == n \div (24 * 60 * 60)
        sec == n % (24 * 60 * 60)
    IN <<"1", "9", "7", "0", "-", "0", "1", "-">> \o TwoDigits(day + 1) \o <<"T">>
       \o TwoDigits(sec \div 3600) \o <<":">> \o TwoDigits((sec % 3600) \div 60)
       \o <<":">> \o TwoDigits(sec % 60)

\* ElemAt that pads a short array with its last element
ElemAtPadded(arr, i) ==
    IF i <= Len(arr) THEN arr[i] ELSE IF arr = <<>> THEN None ELSE arr[Len(arr)]

\* arr[i] if i < len(arr) else None   (i counts from 1 here)
ElemAt(arr, i) == IF i <= Len(arr) THEN arr[i] ELSE None

\* DateUtc that gives up on the whole timestamp column after a bad one
DateUtcSticky(v_utc, i) ==
    IF \E j \in 1..i : utcfromtimestamp(v_utc[j]) = None
    THEN None
    ELSE Some(isoformat(Val(utcfromtimestamp(v_utc[i]))) \o <<"Z">>)

\* the date_utc of record i
DateUtc(v_utc, i) ==
    LET date_utc == utcfromtimestamp(v_utc[i])
    IN IF date_utc # None THEN Some(isoformat(Val(date_utc)) \o <<"Z">>) ELSE None

\* the record appended by iteration i of the loop
TwcRecord(t, i) ==
    [date_utc |-> DateUtc(GetArray(t, "validTimeUtc"), i),
     dow |-> ElemAt(GetArray(t, "dayOfWeek"), i),
     tmax |-> ElemAt(GetArray(t, "temperatureMax"), i),
     tmin |-> ElemAt(GetArray(t, "temperatureMin"), i),
     qpf |-> ElemAt(GetArray(t, "qpf"), i),
     narr |-> ElemAt(GetArray(t, "narrative"), i)]

parse_twc_daily(t) == [i \in 1..Len(GetArray(t, "validTimeUtc")) |-> TwcRecord(t, i)]

ParseStep ==
    /\ pc = "parse"
    /\ ti <= Len(GetArray(twc, "validTimeUtc"))
    /\ days' = Append(days, TwcRecord(twc, ti))
    /\ ti' = ti + 1
    /\ UNCHANGED <<pc, twc, collapseVars, blendVars, indexVars>>

ParseReturn ==
    /\ pc = "parse"
    /\ ti > Len(GetArray(twc, "validTimeUtc"))
    /\ pc' = "parsed"
    /\ UNCHANGED <<parseVars, collapseVars, blendVars, indexVars>>

\* inputs: timestamps of 02, 03 and 05 January 1970, null and a string
StampA == Some(24 * 60 * 60 + 7 * 3600)
StampB == Some(2 * 24 * 60 * 60)
StampC == Some(4 * 24 * 60 * 60 + 23 * 3600 + 59 * 60 + 59)
Stamps == {None, NonNumeric, StampA, StampC}

DayNames == <<"Fri", "Sat", "Sun", "Mon", "Tue", "Wed", "Thu">>
\* a companion array of n elements; element 2 of qpf and narrative is null
FullArray(key, n) ==
    [i \in 1..n |->
        CASE key = "dayOfWeek" -> Some(DayNames[((i - 1) % 7) + 1])
          [] key = "temperatureMax" -> Some(90 + i)
          [] key = "temperatureMin" -> Some(70 + i)
          [] key = "qpf" -> IF i = 2 THEN None ELSE Some(i)
          [] OTHER -> IF i = 2 THEN None ELSE IF i = 3 THEN Some(<<>>) ELSE Some(Hot)]

\* absent, empty, short, exact and long companion arrays
Companions(key, n) ==
    {None} \cup {Some(FullArray(key, m)) : m \in {0, 1, n, n + 1}}

TwcPayloads(n) ==
    [validTimeUtc : {None} \cup {Some(s) : s \in SeqsUpTo(Stamps, n)},
     dayOfWeek : Companions("dayOfWeek", n),
     temperatureMax : Companions("temperatureMax", n),
     temperatureMin : Companions("temperatureMin", n),
     qpf : Companions("qpf", n),
     narrative : Companions("narrative", n)]

InitParse ==
    /\ pc = "parse"
    /\ twc \in TwcPayloads(MaxDays)
    /\ ti = 1
    /\ days = <<>>
    /\ Idle("parse")

NextParse == ParseStep \/ ParseReturn

SpecParse == InitParse /\ [][NextParse]_vars

(***************************************************************************)
(* blend_days                                                              *)
(*                                                                         *)
(* nws_match is Some(summary) for a key of nws_daily and None for the      *)
(* empty dict that nws_daily.get(day_key, {}) returns otherwise.           *)
(***************************************************************************)
\* td["date_utc"][:10] if td["date_utc"] else None
DayKey(td) == IF TruthyStr(td.date_utc) THEN Some(Take(Val(td.date_utc), 10)) ELSE None

NwsMatch(nd, day_key) ==
    IF day_key # None /\ Val(day_key) \in DOMAIN nd THEN Some(nd[Val(day_key)]) ELSE None

\* nws_match.get("nws_day_temp", td["tmax"])
HiTemp(nws_match, td) ==
    IF nws_match = None THEN td.tmax ELSE Val(nws_match).nws_day_temp

\* nws_match.get("nws_night_temp", td["tmin"])
LoTemp(nws_match, td) ==
    IF nws_match = None THEN td.tmin ELSE Val(nws_match).nws_night_temp

\* PopPct defaulting to 0 instead of None
PopPctZero(nws_match) == IF nws_match = None THEN Some(0) ELSE Some(Val(nws_match).nws_pop)

\* nws_match.get("nws_pop")
PopPct(nws_match) == IF nws_match = None THEN None ELSE Some(Val(nws_match).nws_pop)

Narrative(nws_match, td) ==
    IF nws_match # None
       /\ (Val(nws_match).nws_narr_day # <<>> \/ Val(nws_match).nws_narr_night # <<>>)
    THEN LET narr == Strip(Val(nws_match).nws_narr_day)
             night == Strip(Val(nws_match).nws_narr_night)
         IN IF night # <<>> THEN narr \o <<Space>> \o night ELSE narr
    ELSE IF TruthyStr(td.narr) THEN Val(td.narr) ELSE <<>>

Icons(nws_match) ==
    [day |-> IF nws_match = None THEN None ELSE Val(nws_match).nws_icon_day,
     night |-> IF nws_match = None THEN None ELSE Val(nws_match).nws_icon_night]

\* SourceFlags reporting that the day key matched
SourceFlagsMatched(nws_match, td) ==
    [nwsTempDay |-> nws_match # None,
     nwsTempNight |-> nws_match # None,
     nwsPoP |-> nws_match # None,
     twcQpf |-> td.qpf # None,
     twcBase |-> TRUE]

SourceFlags(nws_match, td) ==
    [nwsTempDay |-> nws_match # None /\ Val(nws_match).nws_day_temp # None,
     nwsTempNight |-> nws_match # None /\ Val(nws_match).nws_night_temp # None,
     nwsPoP |-> nws_match # None,
     twcQpf |-> td.qpf # None,
     twcBase |-> TRUE]

\* the entry appended by one iteration of the loop
BlendDay(nd, td) ==
    LET day_key == DayKey(td)
        nws_match == NwsMatch(nd, day_key)
    IN [date |-> day_key,
        dayOfWeek |-> td.dow,
        highTemp_F |-> HiTemp(nws_match, td),
        lowTemp_F |-> LoTemp(nws_match, td),
        qpf_in |-> td.qpf,
        pop_pct |-> PopPct(nws_match),
        narrative |-> Narrative(nws_match, td),
        icons |-> Icons(nws_match),
        sourceFlags |-> SourceFlags(nws_match, td)]

\* Limited that drops the last of the days it should keep
LimitedShort(tds, limit) == Take(tds, limit - 1)

\* twc_days[:days_limit]
Limited(tds, limit) == Take(tds, limit)

BlendStep ==
    /\ pc = "blend"
    /\ bi <= Len(Limited(twc_days, days_limit))
    /\ blended' = Append(blended, BlendDay(nws_daily, Limited(twc_days, days_limit)[bi]))
    /\ bi' = bi + 1
    /\ UNCHANGED <<pc, nws_daily, twc_days, days_limit, collapseVars, parseVars, indexVars>>

BlendReturn ==
    /\ pc = "blend"
    /\ bi > Len(Limited(twc_days, days_limit))
    /\ pc' = "blended"
    /\ UNCHANGED <<blendVars, collapseVars, parseVars, indexVars>>

\* inputs: the daily summaries that collapse_nws_to_daily builds from a few
\* periods, and the days that parse_twc_daily builds from a few payloads
BlendPeriods ==
    { Period(Some(DateA \o Morning), Some(TRUE), Some(95), Some(Sunny), Some(40)),
      Period(Some(DateA \o Evening), Some(FALSE), Some(75), Some(Clear), Some(10)),
      Period(Some(DateA \o Morning), Some(TRUE), None, None, NonNumeric),
      Period(Some(DateA \o Evening), Some(FALSE), Some(70), Some(<<>>), None),
      Period(Some(DateA \o Morning), Some(TRUE), Some(99), Some(Blank), Some(10)),
      Period(Some(DateB \o Evening), Some(FALSE), Some(75), Some(Clear), Some(40)),
      Period(Some(DateB \o Morning), Some(TRUE), Some(95), Some(Sunny \o <<Space>>), None),
      Period(None, Some(TRUE), Some(95), Some(Sunny), Some(40)) }

BlendPayloads(n) ==
    [validTimeUtc : {Some(s) : s \in SeqsUpTo({None, StampA, StampB}, n)},
     dayOfWeek : {Some(FullArray("dayOfWeek", n))},
     temperatureMax : {Some(FullArray("temperatureMax", m)) : m \in {1, n}},
     temperatureMin : {Some(FullArray("temperatureMin", n))},
     qpf : {None, Some(FullArray("qpf", n))},
     narrative : {None, Some(FullArray("narrative", n))}]

InitBlend ==
    /\ pc = "blend"
    /\ nws_daily \in {collapse_nws_to_daily(ps) : ps \in SeqsUpTo(BlendPeriods, MaxBlendPeriods)}
    /\ twc_days \in {parse_twc_daily(t) : t \in BlendPayloads(MaxBlendDays)}
    /\ days_limit \in 1..MaxLimit
    /\ bi = 1
    /\ blended = <<>>
    /\ Idle("blend")

NextBlend == BlendStep \/ BlendReturn

SpecBlend == InitBlend /\ [][NextBlend]_vars

(***************************************************************************)
(* blend_forecast.main and build_forecast_index.main                       *)
(*                                                                         *)
(* listing is the content of api/forecast: None while the directory does   *)
(* not exist, else Some(the set of file names).  A float is the pair       *)
(* <<m, k>> standing for m / 10^k, with k as small as possible.            *)
(***************************************************************************)
RECURSIVE ToInt(_)
ToInt(ds) == IF ds = <<>> THEN 0 ELSE 10 * ToInt(SubSeq(ds, 1, Len(ds) - 1)) + DigitVal(ds[Len(ds)])

RECURSIVE StripZeros(_)
StripZeros(ds) ==
    IF ds # <<>> /\ ds[Len(ds)] = "0" THEN StripZeros(SubSeq(ds, 1, Len(ds) - 1)) ELSE ds

IsDigits(s) == \A i \in 1..Len(s) : IsDigit(s[i])

\* float("w.frac"), and float("w") when frac is empty
Decimal(w, frac) == <<ToInt(w \o StripZeros(frac)), Len(StripZeros(frac))>>

\* float(s) for s of the form -?digits(.digits)?
PyFloat(s) ==
    LET neg == s # <<>> /\ Head(s) = "-"
        body == IF neg THEN Tail(s) ELSE s
        dots == {i \in 1..Len(body) : body[i] = "."}
        dot == IF dots = {} THEN Len(body) + 1 ELSE CHOOSE i \in dots : TRUE
        num == Decimal(SubSeq(body, 1, dot - 1), SubSeq(body, dot + 1, Len(body)))
    IN <<(IF neg THEN -1 ELSE 1) * num[1], num[2]>>

\* f"7day_{LAT}_{LON}.json"
OutFileName(lat, lon) ==
    <<"7", "d", "a", "y", "_">> \o lat \o <<"_">> \o lon \o <<".", "j", "s", "o", "n">>

\* str.endswith
EndsWith(s, suffix) ==
    Len(s) >= Len(suffix) /\ SubSeq(s, Len(s) - Len(suffix) + 1, Len(s)) = suffix

Suffix7Day == <<"_", "7", "d", "a", "y", ".", "j", "s", "o", "n">>

\* -?\d+
SignedInt(s) ==
    LET r == IF s # <<>> /\ Head(s) = "-" THEN Tail(s) ELSE s
    IN r # <<>> /\ IsDigits(r)

\* the ways PAT can split f: <<a, u, b, c, v, d>> are the lengths of group 1,
\* the first optional "_", group 2, group 3, the second optional "_", group 4
PatSplits(f) ==
    LET n == Len(f)
        At(i, c) == i <= n /\ f[i] = c
        S1 == {<<a>> : a \in {a \in 1..n : SignedInt(SubSeq(f, 1, a))}}
        S2 == UNION {{<<x[1], u>> : u \in {u \in {0, 1} : u = 1 => At(x[1] + 1, "_")}} : x \in S1}
        S3 == UNION {{<<x[1], x[2], b>> :
                        b \in {b \in 0..n : /\ x[1] + x[2] + b <= n
                                            /\ IsDigits(SubSeq(f, x[1] + x[2] + 1, x[1] + x[2] + b))
                                            /\ At(x[1] + x[2] + b + 1, "_")}} : x \in S2}
        P3(x) == x[1] + x[2] + x[3] + 1
        S4 == UNION {{<<x[1], x[2], x[3], c>> :
                        c \in {c \in 1..n : /\ P3(x) + c <= n
                                            /\ SignedInt(SubSeq(f, P3(x) + 1, P3(x) + c))}} : x \in S3}
        P4(x) == P3(x) + x[4]
        S5 == UNION {{<<x[1], x[2], x[3], x[4], v>> :
                        v \in {v \in {0, 1} : v = 1 => At(P4(x) + 1, "_")}} : x \in S4}
        P5(x) == P4(x) + x[5]
    IN UNION {{<<x[1], x[2], x[3], x[4], x[5], d>> :
                 d \in {d \in 0..n : /\ P5(x) + d <= n
                                     /\ IsDigits(SubSeq(f, P5(x) + 1, P5(x) + d))
                                     /\ SubSeq(f, P5(x) + d + 1, n) = Suffix7Day}} : x \in S5}

\* the order in which the regex engine tries the splits: every quantifier
\* is greedy, so the longer (or taken) choice of the leftmost one is first
RECURSIVE TriedBefore(_, _, _)
TriedBefore(x, y, i) ==
    IF i > Len(x) THEN TRUE
    ELSE IF x[i] # y[i] THEN x[i] > y[i]
    ELSE TriedBefore(x, y, i + 1)

\* PAT.match(f).groups(), None when PAT does not match
PatMatch(f) ==
    IF PatSplits(f) = {} THEN None
    ELSE LET x == CHOOSE s \in PatSplits(f) : \A o \in PatSplits(f) : TriedBefore(s, o, 1)
             p3 == x[1] + x[2] + x[3] + 1
             p5 == p3 + x[4] + x[5]
         IN Some([lat_whole |-> SubSeq(f, 1, x[1]),
                  lat_frac |-> SubSeq(f, x[1] + x[2] + 1, x[1] + x[2] + x[3]),
                  lon_whole |-> SubSeq(f, p3 + 1, p3 + x[4]),
                  lon_frac |-> SubSeq(f, p5 + 1, p5 + x[6])])

unslug_to_float(whole, frac) ==
    LET sign == IF whole # <<>> /\ Head(whole) = "-" THEN -1 ELSE 1
        w == IF sign = -1 THEN Tail(whole) ELSE whole
        num == Decimal(w, frac)
    IN <<sign * num[1], num[2]>>

\* the points list that the loop over os.listdir builds
IndexPoints(files) ==
    { [lat |-> unslug_to_float(Val(PatMatch(f)).lat_whole, Val(PatMatch(f)).lat_frac),
       lon |-> unslug_to_float(Val(PatMatch(f)).lon_whole, Val(PatMatch(f)).lon_frac),
       url |-> f] :
        f \in {g \in files : EndsWith(g, Suffix7Day) /\ PatMatch(g) # None} }

IndexJson == <<"i", "n", "d", "e", "x", ".", "j", "s", "o", "n">>

\* blend_forecast.py: os.makedirs(OUT_DIR), then main writes the payload
BlendMain ==
    /\ pc = "start"
    /\ outfile' = Some(OutFileName(LAT, LON))
    /\ listing' = Some((IF listing = None THEN {} ELSE Val(listing)) \cup {OutFileName(LAT, LON)})
    /\ pc' = "saved"
    /\ UNCHANGED <<LAT, LON, points, collapseVars, parseVars, blendVars>>

\* build_forecast_index.main when api/forecast is not a directory
IndexMainNoDir ==
    /\ pc \in {"start", "saved"}
    /\ listing = None
    /\ pc' = "indexed"
    /\ UNCHANGED <<indexVars, collapseVars, parseVars, blendVars>>

\* build_forecast_index.main
IndexMain ==
    /\ pc \in {"start", "saved"}
    /\ listing # None
    /\ points' = IndexPoints(Val(listing))
    /\ listing' = Some(Val(listing) \cup {IndexJson})
    /\ pc' = "indexed"
    /\ UNCHANGED <<LAT, LON, outfile, collapseVars, parseVars, blendVars>>

Coords == {<<"3", "3", ".", "5", "1">>,
           <<"-", "9", "5", ".", "1", "4">>,
           <<"3", "0">>,
           <<"-", "8", ".", "5", "0">>}

\* files that api/forecast may hold before the run
OtherFiles == {<<"3", "3", "_", "5", "1", "_", "-", "9", "5", "_", "1", "4", "_", "7", "d", "a", "y", ".", "j", "s", "o", "n">>,
               <<"3", "0", "_", "-", "8", "_", "7", "d", "a", "y", ".", "j", "s", "o", "n">>,
               <<"3", "5", "5", "_", "9", "1", "_", "7", "d", "a", "y", ".", "j", "s", "o", "n">>,
               <<"-", "0", "_", "5", "_", "8", "_", "5", "0", "_", "7", "d", "a", "y", ".", "j", "s", "o", "n">>,
               <<"i", "n", "d", "e", "x", ".", "j", "s", "o", "n">>,
               <<"7", "d", "a", "y", "_", "3", "0", "_", "-", "8", ".", "5", "0", ".", "j", "s", "o", "n">>,
               <<"x", "_", "7", "d", "a", "y", ".", "j", "s", "o", "n">>}

InitIndex ==
    /\ pc = "start"
    /\ LAT \in Coords
    /\ LON \in Coords
    /\ listing \in {None} \cup {Some(S) : S \in {T \in SUBSET OtherFiles : Cardinality(T) <= MaxFiles}}
    /\ outfile = None
    /\ points = {}
    /\ Idle("index")

NextIndex == BlendMain \/ IndexMainNoDir \/ IndexMain

SpecIndex == InitIndex /\ [][NextIndex]_vars

(***************************************************************************)
(* Properties of collapse_nws_to_daily                                     *)
(***************************************************************************)
\* the date key of the i-th period, None when it has none
KeyOf(i) ==
    LET st == nws_periods[i].start
    IN IF st = None \/ Val(st) = <<>> THEN None ELSE Some(SubSeq(Val(st), 1, Min(10, Len(Val(st)))))

IsDayPeriod(i) == nws_periods[i].is_day = Some(TRUE)
EmptyDetail(i) == nws_periods[i].detail \in {None, Some(<<>>)}

\* C7: once narrativeDay (narrativeNight) of a date key is non-empty, no
\* later fold step makes it empty, and a later daytime (nighttime) period of
\* that key with an empty or absent detailed forecast leaves it unchanged.
C7_NarrativeNeverErased ==
    [][\A k \in DOMAIN daily :
          /\ k \in DOMAIN daily'
          /\ (daily[k].nws_narr_day # <<>> => daily'[k].nws_narr_day # <<>>)
          /\ (daily[k].nws_narr_night # <<>> => daily'[k].nws_narr_night # <<>>)
          /\ (pi' = pi + 1 /\ KeyOf(pi) = Some(k) /\ EmptyDetail(pi) =>
                 IF IsDayPeriod(pi)
                 THEN daily'[k].nws_narr_day = daily[k].nws_narr_day
                 ELSE daily'[k].nws_narr_night = daily[k].nws_narr_night)]_vars

\* a daytime period with an empty detailed forecast has just been folded
\* into a summary that already had a narrativeDay, which is still there
C7_Witness ==
    /\ pc = "collapse"
    /\ pi > 2
    /\ KeyOf(pi - 1) # None
    /\ IsDayPeriod(pi - 1)
    /\ EmptyDetail(pi - 1)
    /\ daily[Val(KeyOf(pi - 1))].nws_narr_day # <<>>

\* the numeric probability-of-precipitation values of the first n periods
\* whose date key is k
PopsOf(k, n) ==
    { Val(nws_periods[i].pop) :
        i \in { j \in 1..n : KeyOf(j) = Some(k) /\ Len(nws_periods[j].pop) = 1 } }

PopAt(i) == IF Len(nws_periods[i].pop) = 1 THEN {Val(nws_periods[i].pop)} ELSE {}

Greatest(S) == CHOOSE m \in S : \A x \in S : x <= m

\* C8: the pop of a date key never decreases from one fold step to the next,
\* is max(0, first value) in the step that creates the summary (it starts at
\* 0), and after the fold is the maximum of 0 and the numeric values of all
\* periods of that key.
C8_PopRunningMax ==
    [][\A k \in DOMAIN daily' :
          /\ (k \in DOMAIN daily => daily'[k].nws_pop >= daily[k].nws_pop)
          /\ (k \notin DOMAIN daily =>
                 daily'[k].nws_pop = Greatest({0} \cup PopAt(pi)))
          /\ daily'[k].nws_pop >= 0
          /\ (pc' = "collapsed" =>
                 daily'[k].nws_pop = Greatest({0} \cup PopsOf(k, Len(nws_periods))))]_vars

\* the fold has ended on a key whose last period had a smaller value than an
\* earlier one
C8_Witness ==
    /\ pc = "collapsed"
    /\ \E i, j \in 1..Len(nws_periods) :
          /\ i < j
          /\ j = Len(nws_periods)
          /\ KeyOf(i) # None
          /\ KeyOf(i) = KeyOf(j)
          /\ Len(nws_periods[i].pop) = 1
          /\ Len(nws_periods[j].pop) = 1
          /\ Val(nws_periods[j].pop) < Val(nws_periods[i].pop)
          /\ daily[Val(KeyOf(i))].nws_pop = Val(nws_periods[i].pop)

DaySlot(d) == <<d.nws_day_name, d.nws_day_temp, d.nws_icon_day, d.nws_narr_day>>
NightSlot(d) == <<d.nws_night_temp, d.nws_icon_night, d.nws_narr_night>>
Fresh ==
    [nws_day_name |-> <<>>, nws_day_temp |-> <<>>, nws_night_temp |-> <<>>,
     nws_pop |-> 0, nws_icon_day |-> <<>>, nws_icon_night |-> <<>>,
     nws_narr_day |-> <<>>, nws_narr_night |-> <<>>]

\* C9: a fold step changes only the summary of the period's own date key,
\* a daytime period leaves the night slot as it was (as created, for a new
\* key), a nighttime period leaves the day slot as it was, and a period
\* without a date key changes nothing and creates no key.
C9_FoldFrame ==
    [][pi' = pi + 1 =>
         IF KeyOf(pi) = None
         THEN daily' = daily
         ELSE LET k == Val(KeyOf(pi))
                  before == IF k \in DOMAIN daily THEN daily[k] ELSE Fresh
              IN /\ DOMAIN daily' = DOMAIN daily \cup {k}
                 /\ \A j \in DOMAIN daily \ {k} : daily'[j] = daily[j]
                 /\ IF IsDayPeriod(pi)
                    THEN NightSlot(daily'[k]) = NightSlot(before)
                    ELSE DaySlot(daily'[k]) = DaySlot(before)]_vars

\* a nighttime period has just been folded into a summary whose day slot was
\* already filled, next to the summary of another date
C9_Witness ==
    /\ pc = "collapse"
    /\ pi > 2
    /\ KeyOf(pi - 1) # None
    /\ ~IsDayPeriod(pi - 1)
    /\ daily[Val(KeyOf(pi - 1))].nws_day_temp # None
    /\ daily[Val(KeyOf(pi - 1))].nws_night_temp # None
    /\ Cardinality(DOMAIN daily) > 1

(***************************************************************************)
(* Properties of parse_twc_daily                                           *)
(***************************************************************************)
Column(key) == IF twc[key] = <<>> THEN <<>> ELSE twc[key][1]

\* the day of the month that the ISO text s names
DayOfMonth(s) == 10 * DigitVal(s[9]) + DigitVal(s[10])

\* C6: parse_twc_daily returns len(validTimeUtc) records in index order;
\* every companion field of record i is element i of its array when the array
\* is that long and null otherwise; a timestamp that cannot be converted
\* gives date_utc = null for that record only, and a convertible one gives
\* the ISO text of its UTC day.
C6_ParseAligned ==
    /\ Len(days) = ti - 1
    /\ Len(days) <= Len(Column("validTimeUtc"))
    /\ (pc = "parsed" => Len(days) = Len(Column("validTimeUtc")))
    /\ \A i \in 1..Len(days) :
          /\ \A f \in {<<"dow", "dayOfWeek">>, <<"tmax", "temperatureMax">>,
                       <<"tmin", "temperatureMin">>, <<"qpf", "qpf">>,
                       <<"narr", "narrative">>} :
                days[i][f[1]] = IF i <= Len(Column(f[2])) THEN Column(f[2])[i] ELSE <<>>
          /\ LET ts == Column("validTimeUtc")[i]
             IN IF Len(ts) = 1
                THEN /\ days[i].date_utc # <<>>
                     /\ Len(days[i].date_utc[1]) = 20
                     /\ days[i].date_utc[1][20] = "Z"
                     /\ SubSeq(days[i].date_utc[1], 1, 8)
                          = <<"1", "9", "7", "0", "-", "0", "1", "-">>
                     /\ (DayOfMonth(days[i].date_utc[1]) - 1) * 86400 <= ts[1]
                     /\ ts[1] < DayOfMonth(days[i].date_utc[1]) * 86400
                ELSE days[i].date_utc = <<>>

\* the parse has ended on a payload whose first timestamp is bad and whose
\* second is good, with a companion array shorter than validTimeUtc
C6_Witness ==
    /\ pc = "parsed"
    /\ Len(days) = 2
    /\ days[1].date_utc = <<>>
    /\ days[2].date_utc # <<>>
    /\ Len(Column("temperatureMax")) = 1
    /\ days[1].tmax # <<>>
    /\ days[2].tmax = <<>>
    /\ twc.narrative = <<>>

(***************************************************************************)
(* Properties of blend_days                                                *)
(***************************************************************************)
\* the date key of the i-th commercial day, <<>> when it has no date
TwcKey(i) ==
    LET iso == twc_days[i].date_utc
    IN IF iso = <<>> \/ iso[1] = <<>> THEN <<>> ELSE <<SubSeq(iso[1], 1, Min(10, Len(iso[1])))>>

Matched(i) == TwcKey(i) # <<>> /\ TwcKey(i)[1] \in DOMAIN nws_daily
Summary(i) == nws_daily[TwcKey(i)[1]]

\* C1: blend_days returns min(days_limit, len(twc_days)) entries, and entry i
\* carries the date key, dayOfWeek and qpf of twc_days[i].
C1_LengthAndOrder ==
    /\ Len(blended) = bi - 1
    /\ Len(blended) <= Len(twc_days)
    /\ Len(blended) <= days_limit
    /\ (pc = "blended" => Len(blended) = Min(days_limit, Len(twc_days)))
    /\ \A i \in 1..Len(blended) :
          /\ blended[i].date = TwcKey(i)
          /\ blended[i].dayOfWeek = twc_days[i].dow
          /\ blended[i].qpf_in = twc_days[i].qpf

\* three commercial days cut to two entries with different dates and days
C1_Witness ==
    /\ pc = "blended"
    /\ Len(twc_days) = 3
    /\ days_limit = 2
    /\ Len(blended) = 2
    /\ blended[1].date # <<>>
    /\ blended[2].date # <<>>
    /\ blended[1].date # blended[2].date
    /\ blended[1].dayOfWeek # blended[2].dayOfWeek

\* C2: highTemp is the matched summary's dayTemp when that is non-null and
\* the commercial tempMax otherwise; lowTemp likewise with nightTemp and
\* tempMin.
C2_TempFallback ==
    \A i \in 1..Len(blended) :
        /\ blended[i].highTemp_F =
             IF Matched(i) /\ Summary(i).nws_day_temp # <<>>
             THEN Summary(i).nws_day_temp ELSE twc_days[i].tmax
        /\ blended[i].lowTemp_F =
             IF Matched(i) /\ Summary(i).nws_night_temp # <<>>
             THEN Summary(i).nws_night_temp ELSE twc_days[i].tmin

CommercialNarrative(i) ==
    IF twc_days[i].narr = <<>> THEN <<>> ELSE twc_days[i].narr[1]

FallsBack(i) ==
    /\ blended[i].highTemp_F = twc_days[i].tmax
    /\ blended[i].lowTemp_F = twc_days[i].tmin
    /\ blended[i].pop_pct = <<>>
    /\ blended[i].narrative = CommercialNarrative(i)
    /\ blended[i].icons.day = <<>>
    /\ blended[i].icons.night = <<>>

\* C3 as stated: an unmatched commercial day falls back to the commercial
\* values and every sourceFlag is false.
C3_AllFlagsFalse ==
    \A i \in 1..Len(blended) :
        ~Matched(i) =>
            /\ FallsBack(i)
            /\ \A f \in DOMAIN blended[i].sourceFlags : ~blended[i].sourceFlags[f]

\* C3: an unmatched commercial day (a null date included) falls back to the
\* commercial values, its nwsTempDay, nwsTempNight and nwsPoP flags are false,
\* twcBase is true and twcQpf tells whether the commercial qpf is non-null.
C3_NoMatchFallback ==
    \A i \in 1..Len(blended) :
        ~Matched(i) =>
            /\ FallsBack(i)
            /\ ~blended[i].sourceFlags.nwsTempDay
            /\ ~blended[i].sourceFlags.nwsTempNight
            /\ ~blended[i].sourceFlags.nwsPoP
            /\ blended[i].sourceFlags.twcBase
            /\ blended[i].sourceFlags.twcQpf = (twc_days[i].qpf # <<>>)

\* an entry without a date and an entry whose date the government map lacks,
\* next to a government map that is not empty
C3_Witness ==
    /\ DOMAIN nws_daily # {}
    /\ \E i, j \in 1..Len(blended) :
          /\ blended[i].date = <<>>
          /\ blended[j].date # <<>>
          /\ ~Matched(j)
          /\ blended[j].highTemp_F # <<>>
          /\ blended[j].narrative # <<>>

\* the non-empty ones of two strings joined by one space
JoinNonEmpty(a, b) ==
    IF a = <<>> THEN b ELSE IF b = <<>> THEN a ELSE a \o <<" ">> \o b

\* C4: with a non-empty narrativeDay or narrativeNight in the match,
\* narrative is the two with the empty ones left out, joined by one space and
\* trimmed, and is not empty; else it is the commercial narrative or "".
C4_NarrativeJoined ==
    \A i \in 1..Len(blended) :
        IF Matched(i) /\ (Summary(i).nws_narr_day # <<>> \/ Summary(i).nws_narr_night # <<>>)
        THEN /\ blended[i].narrative
                  = Strip(JoinNonEmpty(Summary(i).nws_narr_day, Summary(i).nws_narr_night))
             /\ blended[i].narrative # <<>>
        ELSE blended[i].narrative = CommercialNarrative(i)

\* C5: nwsTempDay is true exactly when the day key matched a summary with a
\* non-null dayTemp, and then highTemp is that dayTemp; when it is false
\* highTemp is the commercial tmax (no match) or null (match without dayTemp).
C5_FlagIffGovernmentTemp ==
    \A i \in 1..Len(blended) :
        /\ blended[i].sourceFlags.nwsTempDay
             = (Matched(i) /\ Summary(i).nws_day_temp # <<>>)
        /\ (blended[i].sourceFlags.nwsTempDay =>
              blended[i].highTemp_F = Summary(i).nws_day_temp)
        /\ (~blended[i].sourceFlags.nwsTempDay =>
              blended[i].highTemp_F \in {twc_days[i].tmax, <<>>})

\* one entry took its high from the government, another matched a night-only
\* summary and a third did not match
C5_Witness ==
    \E i, j, k \in 1..Len(blended) :
        /\ blended[i].sourceFlags.nwsTempDay
        /\ blended[i].highTemp_F # twc_days[i].tmax
        /\ Matched(j)
        /\ ~blended[j].sourceFlags.nwsTempDay
        /\ ~Matched(k)
        /\ ~blended[k].sourceFlags.nwsTempDay

(***************************************************************************)
(* Properties of the index                                                 *)
(***************************************************************************)
\* C10: after the indexer has run, the file that blend_forecast.main wrote is
\* in the points list with the latitude and longitude it was written for.
C10_BlendFilesIndexed ==
    pc = "indexed" /\ outfile # <<>> =>
        \E pt \in points :
            /\ pt.url = outfile[1]
            /\ pt.lat = PyFloat(LAT)
            /\ pt.lon = PyFloat(LON)

====
